---- MODULE Spec2Model ----
(***************************************************************************)
(* A model of SawayakaTSR: the two tour-construction pipelines of tsr.py   *)
(* (double_tree_algorithm, christofides_algorithm) and the measurement     *)
(* harness of measurement.py (run_two_algorithms).                         *)
(*                                                                         *)
(* Python lists that are indexed by vertex (the cost matrix and its rows)  *)
(* are functions on 0..len-1; lists that are built by append (paths,       *)
(* routes, result collections) are sequences.  A networkx graph is a       *)
(* record [nodes, adj]: nodes is the node dictionary's insertion order,    *)
(* adj[v] is v's adjacency dictionary in insertion order, one entry        *)
(* [nbr, wts] per neighbour, wts holding one weight per parallel edge      *)
(* (key 0, 1, ...; a simple Graph always has exactly one).                 *)
(***************************************************************************)
EXTENDS Naturals, Integers, Sequences, FiniteSets, TLC

\* ------------------------------------------------------------ bounds
\* The exhaustive family: every symmetric matrix on at most MaxN vertices with
\* weights in 0..MaxWeight.
MaxN == 3
MaxWeight == 1
\* The principal submatrices of the programs' own 7 x 7 matrix, on at most
\* MaxFixtureN vertices.
MaxFixtureN == 6
\* The harness: at most MaxTimes trials on at most HarnessN vertices, or one
\* trial on at most RelabelN vertices.
MaxTimes == 2
HarnessN == 3
RelabelN == 4
\* The multigraphs given to the Eulerian circuit alone.
EulerN == 4
\* The matrices with rows cut short (graphs that are not complete).
RaggedN == 4
MaxEdges == 4

\* Python's None, the value of the cost matrix's diagonal.
NoneVal == -1

Range(n) == 0 .. (n - 1)
PyLen(l) == Cardinality(DOMAIN l)
RemoveAt(s, i) == SubSeq(s, 1, i - 1) \o SubSeq(s, i + 1, Len(s))

\* f itself.  TLC keeps a function expression unevaluated until its value is
\* needed; comparing it makes TLC build the value, so that a graph made by many
\* updates is not a chain of as many pending expressions.
Built(f) == IF f = f THEN f ELSE f

\* y, once x has its value: the loops below hand on their accumulator with it,
\* as a Python loop holds a value, not a pending expression.
Then(x, y) == IF x = x THEN y ELSE y

\* ------------------------------------------------------------ networkx graphs
EmptyGraph == [nodes |-> << >>, adj |-> << >>]

HasNode(g, v) == v \in DOMAIN g.adj
HasNbr(row, v) == \E i \in 1 .. Len(row) : row[i].nbr = v
NbrEntry(row, v) == row[CHOOSE i \in 1 .. Len(row) : row[i].nbr = v]
Nbrs(g, v) == {g.adj[v][i].nbr : i \in 1 .. Len(g.adj[v])}

AddNode(g, v) ==
    IF HasNode(g, v) THEN g
    ELSE [nodes |-> Append(g.nodes, v), adj |-> Built(g.adj @@ (v :> << >>))]

\* The adjacency row after G.adj[..][v] = {one datadict}: a new neighbour goes
\* last, an existing one keeps its place and has its data replaced.
PutNbr(row, v, wts) ==
    IF HasNbr(row, v)
    THEN Built([i \in 1 .. Len(row) |->
            IF row[i].nbr = v THEN [nbr |-> v, wts |-> wts] ELSE row[i]])
    ELSE Append(row, [nbr |-> v, wts |-> wts])

\* The adjacency row after MultiGraph.add_edge makes a new key for v.
PutKey(row, v, w) ==
    IF HasNbr(row, v)
    THEN Built([i \in 1 .. Len(row) |->
            IF row[i].nbr = v THEN [nbr |-> v, wts |-> Append(row[i].wts, w)]
            ELSE row[i]])
    ELSE Append(row, [nbr |-> v, wts |-> <<w>>])

\* nx.Graph.add_edge(u, v, weight=w)
GraphAddEdge(g, u, v, w) ==
    LET g2 == AddNode(AddNode(g, u), v)
    IN [nodes |-> g2.nodes,
        adj |-> Built([x \in DOMAIN g2.adj |->
                    IF x = u THEN PutNbr(g2.adj[x], v, <<w>>)
                    ELSE IF x = v THEN PutNbr(g2.adj[x], u, <<w>>)
                    ELSE g2.adj[x]])]

\* nx.MultiGraph.add_edge(u, v, weight=w): always a new parallel edge.
MultiAddEdge(g, u, v, w) ==
    LET g2 == AddNode(AddNode(g, u), v)
    IN [nodes |-> g2.nodes,
        adj |-> Built([x \in DOMAIN g2.adj |->
                    IF x = u THEN PutKey(g2.adj[x], v, w)
                    ELSE IF x = v THEN PutKey(g2.adj[x], u, w)
                    ELSE g2.adj[x]])]

\* Both ends of one (bundle of) edge(s) set at once, as the copying
\* constructors do when they meet the bundle u-v for the first time.
PutBundle(g, u, v, wts) ==
    [nodes |-> g.nodes,
     adj |-> Built([x \in DOMAIN g.adj |->
                 IF x = u THEN PutNbr(g.adj[x], v, wts)
                 ELSE IF x = v THEN PutNbr(g.adj[x], u, wts)
                 ELSE g.adj[x]])]

RECURSIVE CopyRow(_, _, _, _)
CopyRow(acc, g, u, i) ==
    IF i > Len(g.adj[u]) THEN acc
    ELSE LET acc2 == PutBundle(acc, u, g.adj[u][i].nbr, g.adj[u][i].wts)
         IN Then(acc2, CopyRow(acc2, g, u, i + 1))

RECURSIVE CopyNodes(_, _, _)
CopyNodes(acc, g, k) ==
    IF k > Len(g.nodes) THEN acc
    ELSE LET acc2 == CopyRow(acc, g, g.nodes[k], 1)
         IN Then(acc2, CopyNodes(acc2, g, k + 1))

\* nx.Graph(G), nx.MultiGraph(G) and G.copy(): the nodes are added in G's
\* order, then the edges are added walking G's rows in node order, so every
\* row of the copy lists first the neighbours met in earlier rows.
CopyGraph(g) ==
    CopyNodes([nodes |-> g.nodes, adj |-> [x \in DOMAIN g.adj |-> << >>]], g, 1)

\* nx.Graph.remove_node(v)
RemoveNode(g, v) ==
    [nodes |-> SelectSeq(g.nodes, LAMBDA x : x # v),
     adj |-> Built([x \in DOMAIN g.adj \ {v} |->
                 SelectSeq(g.adj[x], LAMBDA e : e.nbr # v)])]

RECURSIVE SumLen(_, _)
SumLen(row, i) == IF i > Len(row) THEN 0 ELSE Len(row[i].wts) + SumLen(row, i + 1)

\* G.degree[v]: the number of edge ends at v (no self-loops arise here).
Degree(g, v) == SumLen(g.adj[v], 1)

\* The undirected edges {u, v} of g, as ordered pairs u < v.
EdgePairs(g) ==
    {<<u, v>> \in (DOMAIN g.adj) \X (DOMAIN g.adj) : u < v /\ HasNbr(g.adj[u], v)}
Mult(g, u, v) == IF HasNbr(g.adj[u], v) THEN Len(NbrEntry(g.adj[u], v).wts) ELSE 0
Weight(g, u, v) == NbrEntry(g.adj[u], v).wts[1]
EdgeCount(g) == LET S == DOMAIN g.adj
                    RECURSIVE Sum(_)
                    Sum(T) == IF T = {} THEN 0
                              ELSE LET v == CHOOSE x \in T : TRUE
                                   IN Degree(g, v) + Sum(T \ {v})
                IN Sum(S) \div 2

RECURSIVE Reach(_, _, _)
Reach(g, seen, frontier) ==
    IF frontier = {} THEN seen
    ELSE LET nxt == UNION {Nbrs(g, v) : v \in frontier} \ seen
         IN Reach(g, seen \cup nxt, nxt)

\* nx.is_connected(G) for a graph with at least one node.
IsConnected(g) == Reach(g, {g.nodes[1]}, {g.nodes[1]}) = DOMAIN g.adj

\* ------------------------------------------------------------ tsr.py
RECURSIVE AddRowEdges(_, _, _, _)
AddRowEdges(g, m, i, j) ==
    IF j >= PyLen(m[i]) THEN g
    ELSE LET g2 == GraphAddEdge(g, i, j, m[i][j])
         IN Then(g2, AddRowEdges(g2, m, i, j + 1))

RECURSIVE AddMatrixEdges(_, _, _)
AddMatrixEdges(g, m, i) ==
    IF i >= PyLen(m) THEN g
    ELSE LET g2 == AddRowEdges(g, m, i, i + 1)
         IN Then(g2, AddMatrixEdges(g2, m, i + 1))

\* _create_weighted_graph: one edge (i, j) per i < j < len(costMatrix[i]),
\* weighted costMatrix[i][j]; a vertex with no edge is not in the graph.
CreateWeightedGraph(m) == AddMatrixEdges(EmptyGraph, m, 0)

\* The heap entries (wt, next(c), u, v) Prim pushes when it reaches v: one per
\* neighbour not yet visited, in the adjacency row's order.  The frontier is
\* kept in push order, so an entry's position stands for its counter.
FrontierPushes(g, v, visited) ==
    LET row == SelectSeq(g.adj[v], LAMBDA e : e.nbr \notin visited)
    IN [i \in 1 .. Len(row) |-> [wt |-> row[i].wts[1], u |-> v, v |-> row[i].nbr]]

\* The same heap with the order of the weights reversed: the tree Prim grows
\* from it is a maximum spanning tree.
HeapMax(frontier) ==
    CHOOSE i \in 1 .. Len(frontier) :
        \A j \in 1 .. Len(frontier) :
            \/ frontier[i].wt > frontier[j].wt
            \/ (frontier[i].wt = frontier[j].wt /\ i <= j)

\* heappop: the least weight, and among equal weights the earliest pushed.
HeapMin(frontier) ==
    CHOOSE i \in 1 .. Len(frontier) :
        \A j \in 1 .. Len(frontier) :
            \/ frontier[i].wt < frontier[j].wt
            \/ (frontier[i].wt = frontier[j].wt /\ i <= j)

RECURSIVE PrimGrow(_, _, _, _)
PrimGrow(g, visited, frontier, out) ==
    IF frontier = << >> THEN [visited |-> visited, edges |-> out]
    ELSE LET i == HeapMin(frontier)
             e == frontier[i]
             rest == RemoveAt(frontier, i)
         IN IF e.v \in visited THEN Then(rest, PrimGrow(g, visited, rest, out))
            ELSE LET visited2 == visited \cup {e.v}
                     frontier2 == rest \o FrontierPushes(g, e.v, visited2)
                     out2 == Append(out, [u |-> e.u, v |-> e.v, wt |-> e.wt])
                 IN Then(<<visited2, frontier2, out2>>,
                         PrimGrow(g, visited2, frontier2, out2))

\* Prim run from the first node only: the tree of that node's component.
PrimFirstTree(g, visited, out) ==
    IF g.nodes = << >> THEN out
    ELSE PrimGrow(g, {g.nodes[1]}, FrontierPushes(g, g.nodes[1], {g.nodes[1]}), << >>).edges

RECURSIVE PrimEdges(_, _, _)
\* One tree per component, each grown from the first node not yet in a tree.
\* The graph of a square matrix has one component and its first node is 0.
PrimEdges(g, visited, out) ==
    LET nodes == SelectSeq(g.nodes, LAMBDA x : x \notin visited)
    IN IF nodes = << >> THEN out
       ELSE LET u == Head(nodes)
                r == PrimGrow(g, {u}, FrontierPushes(g, u, {u}), << >>)
            IN PrimEdges(g, visited \cup r.visited, out \o r.edges)

RECURSIVE AddEdgesFrom(_, _, _)
AddEdgesFrom(t, edges, k) ==
    IF k > Len(edges) THEN t
    ELSE LET t2 == GraphAddEdge(t, edges[k].u, edges[k].v, edges[k].wt)
         IN Then(t2, AddEdgesFrom(t2, edges, k + 1))

\* nx.minimum_spanning_tree(graph, algorithm="prim"): the nodes of the graph,
\* and Prim's edges in the order it yields them, one tree per component (a
\* spanning forest when the graph is not connected; no error is raised).
MinimumSpanningTree(g) ==
    AddEdgesFrom([nodes |-> g.nodes, adj |-> [x \in DOMAIN g.adj |-> << >>]],
                 PrimEdges(g, {}, << >>), 1)

RECURSIVE DuplicateRow(_, _, _, _)
DuplicateRow(acc, g, v, i) ==
    IF i > Len(g.adj[v]) THEN acc
    ELSE LET acc2 == MultiAddEdge(acc, v, g.adj[v][i].nbr, g.adj[v][i].wts[1])
         IN Then(acc2, DuplicateRow(acc2, g, v, i + 1))

RECURSIVE DuplicateNodes(_, _, _)
DuplicateNodes(acc, g, k) ==
    IF k > Len(g.nodes) THEN acc
    ELSE LET acc2 == DuplicateRow(acc, g, g.nodes[k], 1)
         IN Then(acc2, DuplicateNodes(acc2, g, k + 1))

\* _duplicate_weighted_graph: add_edge(v, w) for every v and every w in
\* graph[v], which meets each undirected edge once from either end.
DuplicateWeightedGraph(g) == DuplicateNodes(EmptyGraph, g, 1)

RECURSIVE RemoveEvenFrom(_, _, _)
RemoveEvenFrom(acc, t, k) ==
    IF k > Len(t.nodes) THEN acc
    ELSE LET acc2 == IF Degree(t, t.nodes[k]) % 2 = 0
                     THEN RemoveNode(acc, t.nodes[k]) ELSE acc
         IN Then(acc2, RemoveEvenFrom(acc2, t, k + 1))

\* _remove_even_degree_vertices
RemoveEvenDegreeVertices(g, t) == RemoveEvenFrom(CopyGraph(g), t, 1)

RECURSIVE Matchings(_)
\* Every matching (set of pairwise vertex-disjoint edges) within the edge set E.
Matchings(E) ==
    IF E = {} THEN {{}}
    ELSE LET e == CHOOSE x \in E : TRUE
             rest == E \ {e}
             apart == {f \in rest : f[1] # e[1] /\ f[1] # e[2] /\ f[2] # e[1] /\ f[2] # e[2]}
         IN Matchings(rest) \cup {M \cup {e} : M \in Matchings(apart)}

RECURSIVE TmpWeightUnsigned(_, _)
\* The weight of M had tmpGraph been given the weights of g as they are.
TmpWeightUnsigned(g, M) ==
    IF M = {} THEN 0
    ELSE LET e == CHOOSE x \in M : TRUE
         IN Weight(g, e[1], e[2]) + TmpWeightUnsigned(g, M \ {e})

RECURSIVE TmpWeight(_, _)
\* The total weight of matching M in tmpGraph, whose weights are the negated
\* weights of g.
TmpWeight(g, M) ==
    IF M = {} THEN 0
    ELSE LET e == CHOOSE x \in M : TRUE
         IN (0 - Weight(g, e[1], e[2])) + TmpWeight(g, M \ {e})

\* nx.max_weight_matching(tmpGraph, maxcardinality=True): a matching of
\* greatest weight among those of greatest cardinality.  Which one it is when
\* several tie is not part of the library's contract: every one is possible.
MaxWeightMatchings(g) ==
    LET all == Matchings(EdgePairs(g))
        most == {M \in all : \A M2 \in all : Cardinality(M2) <= Cardinality(M)}
    IN {M \in most : \A M2 \in most : TmpWeight(g, M2) <= TmpWeight(g, M)}

\* The orders (and orientations) in which "for edge in matching" can run over
\* the set the library returns.
MatchingOrders(M) ==
    LET k == Cardinality(M)
        oriented == M \cup {<<e[2], e[1]>> : e \in M}
        Lo(e) == IF e[1] < e[2] THEN e ELSE <<e[2], e[1]>>
    IN {s \in [1 .. k -> oriented] : {Lo(s[i]) : i \in 1 .. k} = M}

RECURSIVE AddMatchingEdges(_, _, _, _)
AddMatchingEdges(acc, g, s, k) ==
    IF k > Len(s) THEN acc
    ELSE LET acc2 == GraphAddEdge(acc, s[k][1], s[k][2], Weight(g, s[k][1], s[k][2]))
         IN Then(acc2, AddMatchingEdges(acc2, g, s, k + 1))

\* _match_minimal_weight: the graphs it can return for g.
MatchMinimalWeight(g) ==
    {AddMatchingEdges(EmptyGraph, g, s, 1) :
        s \in UNION {MatchingOrders(M) : M \in MaxWeightMatchings(g)}}

RECURSIVE RowEdges(_, _, _, _)
RowEdges(g, k, i, done) ==
    IF i > Len(g.adj[g.nodes[k]]) THEN << >>
    ELSE LET e == g.adj[g.nodes[k]][i]
         IN (IF e.nbr \in done THEN << >>
             ELSE <<[u |-> g.nodes[k], v |-> e.nbr, wt |-> e.wts[1]]>>)
            \o RowEdges(g, k, i + 1, done)

RECURSIVE GraphEdges(_, _)
\* graph.edges.data() of a simple Graph, from node k on: each edge once, met
\* from the end that comes first in the node order.
GraphEdges(g, k) ==
    IF k > Len(g.nodes) THEN << >>
    ELSE RowEdges(g, k, 1, {g.nodes[i] : i \in 1 .. k - 1}) \o GraphEdges(g, k + 1)

RECURSIVE MultiAddEdgesFrom(_, _, _)
MultiAddEdgesFrom(acc, edges, k) ==
    IF k > Len(edges) THEN acc
    ELSE LET acc2 == MultiAddEdge(acc, edges[k].u, edges[k].v, edges[k].wt)
         IN Then(acc2, MultiAddEdgesFrom(acc2, edges, k + 1))

\* _merge_two_graphs: MultiGraph(graph1), then every edge of graph2 added as
\* an edge of its own, parallel to an edge of graph1 if it joins the same pair.
MergeTwoGraphs(g1, g2) == MultiAddEdgesFrom(CopyGraph(g1), GraphEdges(g2, 1), 1)

\* MultiGraph.remove_edge(u, v, key) for the first key of u-v: the key goes,
\* and the neighbour leaves both rows once no key is left.
RemoveFirstKey(g, u, v) ==
    LET Drop(row, w) ==
            IF Len(NbrEntry(row, w).wts) = 1
            THEN SelectSeq(row, LAMBDA e : e.nbr # w)
            ELSE Built([i \in 1 .. Len(row) |->
                     IF row[i].nbr = w THEN [nbr |-> w, wts |-> Tail(row[i].wts)]
                     ELSE row[i]])
    IN [nodes |-> g.nodes,
        adj |-> Built([x \in DOMAIN g.adj |->
                    IF x = u THEN Drop(g.adj[x], v)
                    ELSE IF x = v THEN Drop(g.adj[x], u)
                    ELSE g.adj[x]])]

RECURSIVE EulerLoop(_, _, _, _)
\* _multigraph_eulerian_circuit: the vertex stack is walked along the first
\* edge left at its top vertex; a vertex with no edge left is popped, and
\* every pop but the first yields the edge (last popped, popped).
\* last is << >> for Python's None.
EulerLoop(g, stack, last, out) ==
    IF stack = << >> THEN out
    ELSE LET cur == stack[Len(stack)]
         IN IF Degree(g, cur) = 0
            THEN LET out2 == IF last = << >> THEN out
                             ELSE Append(out, <<last[1], cur>>)
                 IN Then(out2, EulerLoop(g, SubSeq(stack, 1, Len(stack) - 1), <<cur>>, out2))
            ELSE LET nxt == g.adj[cur][1].nbr
                     g2 == RemoveFirstKey(g, cur, nxt)
                 IN Then(g2, EulerLoop(g2, Append(stack, nxt), last, out))

\* nx.is_eulerian(G): every degree even and the graph connected;
\* is_connected raises on the graph with no node.
IsEulerian(g) ==
    /\ \A v \in DOMAIN g.adj : Degree(g, v) % 2 = 0
    /\ IsConnected(g)

\* list(nx.eulerian_circuit(G, source)): the edges, or the exception raised.
EulerianCircuit(g, source) ==
    IF g.nodes = << >> THEN [ok |-> FALSE, err |-> "null graph", edges |-> << >>]
    ELSE IF ~IsEulerian(g) THEN [ok |-> FALSE, err |-> "not Eulerian", edges |-> << >>]
    ELSE IF ~HasNode(g, source) THEN [ok |-> FALSE, err |-> "no such node", edges |-> << >>]
    ELSE [ok |-> TRUE, err |-> "", edges |-> EulerLoop(CopyGraph(g), <<source>>, << >>, << >>)]

\* edge[0] of every edge and nothing more.
CreateEulerianPathOpen(g, source) ==
    LET c == EulerianCircuit(g, source)
    IN IF ~c.ok THEN [ok |-> FALSE, err |-> c.err, path |-> << >>]
       ELSE IF c.edges = << >> THEN [ok |-> FALSE, err |-> "no edge", path |-> << >>]
       ELSE [ok |-> TRUE, err |-> "", path |-> [i \in 1 .. Len(c.edges) |-> c.edges[i][1]]]

\* _create_eulerian_path: edge[0] of every edge, then edge[1] of the last one
\* (an IndexError if there is no edge).
CreateEulerianPath(g, source) ==
    LET c == EulerianCircuit(g, source)
    IN IF ~c.ok THEN [ok |-> FALSE, err |-> c.err, path |-> << >>]
       ELSE IF c.edges = << >> THEN [ok |-> FALSE, err |-> "no edge", path |-> << >>]
       ELSE [ok |-> TRUE, err |-> "",
             path |-> Append([i \in 1 .. Len(c.edges) |-> c.edges[i][1]],
                             c.edges[Len(c.edges)][2])]

RECURSIVE FirstVisits(_, _, _)
FirstVisits(path, i, existedVertice) ==
    IF i > Len(path) THEN << >>
    ELSE IF path[i] \in existedVertice THEN FirstVisits(path, i + 1, existedVertice)
    ELSE <<path[i]>> \o FirstVisits(path, i + 1, existedVertice \cup {path[i]})

\* The first appearances without the closing vertex.
CreateHamiltonianPathOpen(eulerianPath) == FirstVisits(eulerianPath, 1, {})

\* _create_hamiltonian_path: every vertex at its first appearance, then the
\* path's first vertex once more.
CreateHamiltonianPath(eulerianPath) ==
    Append(FirstVisits(eulerianPath, 1, {}), eulerianPath[1])

\* double_tree_algorithm: the route, or the exception that ends the call.
DoubleTreeAlgorithm(m, s) ==
    LET g == CreateWeightedGraph(m)
        t == MinimumSpanningTree(g)
        d == DuplicateWeightedGraph(t)
        p == CreateEulerianPath(d, s)
    IN IF p.ok THEN [ok |-> TRUE, err |-> "", route |-> CreateHamiltonianPath(p.path)]
       ELSE [ok |-> FALSE, err |-> p.err, route |-> << >>]

\* christofides_algorithm: the outcomes it can have, one per matching graph.
ChristofidesAlgorithm(m, s) ==
    LET g == CreateWeightedGraph(m)
        t == MinimumSpanningTree(g)
        r == RemoveEvenDegreeVertices(g, t)
    IN {LET p == CreateEulerianPath(MergeTwoGraphs(t, mg), s)
        IN IF p.ok THEN [ok |-> TRUE, err |-> "", route |-> CreateHamiltonianPath(p.path)]
           ELSE [ok |-> FALSE, err |-> p.err, route |-> << >>]
        : mg \in MatchMinimalWeight(r)}

\* ------------------------------------------------------------ inputs
UpperPairs(n) == {<<i, j>> \in Range(n) \X Range(n) : i < j}
Weights == 0 .. MaxWeight

\* The symmetric n x n matrix with None on the diagonal and f on the pairs.
MatrixOf(n, f) ==
    [i \in Range(n) |-> [j \in Range(n) |->
        IF i = j THEN NoneVal ELSE IF i < j THEN f[<<i, j>>] ELSE f[<<j, i>>]]]

ValidMatrices ==
    UNION {{MatrixOf(n, f) : f \in [UpperPairs(n) -> Weights]} : n \in 1 .. MaxN}

\* The worked example: w(0,1) = 1, w(1,2) = 1, w(0,2) = 3.
ExampleMatrix ==
    MatrixOf(3, [p \in UpperPairs(3) |-> IF p = <<0, 2>> THEN 3 ELSE 1])

\* The cost matrix of both programs' __main__.
Fixture ==
    << <<NoneVal, 8, 14, 17, 10, 6, 15>>,
       <<8, NoneVal, 6, 15, 18, 3, 12>>,
       <<14, 6, NoneVal, 9, 13, 8, 7>>,
       <<17, 15, 9, NoneVal, 7, 12, 3>>,
       <<10, 18, 13, 7, NoneVal, 15, 6>>,
       <<6, 3, 8, 12, 15, NoneVal, 9>>,
       <<15, 12, 7, 3, 6, 9, NoneVal>> >>

RECURSIVE Ascending(_)
\* The elements of a set of numbers in ascending order, as a list from 0.
Ascending(S) ==
    IF S = {} THEN << >>
    ELSE LET x == CHOOSE y \in S : \A z \in S : y <= z
         IN <<x>> \o Ascending(S \ {x})

\* The fixture restricted to the vertex set S (S within 0..6), renumbered from 0.
FixtureSub(S) ==
    LET sel == Ascending(S)
    IN [i \in Range(Len(sel)) |-> [j \in Range(Len(sel)) |->
           Fixture[sel[i + 1] + 1][sel[j + 1] + 1]]]

FixtureMatrices(maxSize) ==
    {FixtureSub(S) : S \in {T \in SUBSET Range(Len(Fixture)) :
                                Cardinality(T) >= 1 /\ Cardinality(T) <= maxSize}}

\* The fixture's leading n x n submatrix with row i cut to len[i] entries,
\* i < len[i] <= n (a shorter row gives the same graph as one cut right after
\* the diagonal).  _create_weighted_graph accepts such a matrix without
\* complaint, and only such a matrix gives a graph that is not complete.
RaggedMatrices ==
    UNION {{[i \in Range(n) |-> [j \in Range(len[i]) |-> FixtureSub(Range(n))[i][j]]] :
                len \in {l \in [Range(n) -> 1 .. n] : \A i \in Range(n) : l[i] > i}} :
           n \in 1 .. RaggedN}

\* The permutations of 0..n-1, as lists from 0: sample(indices, len(indices)).
Permutations0(n) ==
    {f \in [Range(n) -> Range(n)] : \A i, j \in Range(n) : f[i] = f[j] => i = j}

\* ------------------------------------------------------------ measurement.py
\* The relabeling that permutes the rows and leaves the columns in place.
ShuffleCostMatrixRows(m, s, shuffled) ==
    [matrix |-> [i \in Range(PyLen(m)) |-> [j \in Range(PyLen(m)) |-> m[shuffled[i]][j]]],
     start |-> CHOOSE p \in DOMAIN shuffled : shuffled[p] = s]

\* The relabeling that hands back the start as it was given.
ShuffleCostMatrixSameStart(m, s, shuffled) ==
    [matrix |-> [i \in Range(PyLen(m)) |-> [j \in Range(PyLen(m)) |->
                    m[shuffled[i]][shuffled[j]]]],
     start |-> s]

\* _shuffle_cost_matrix, for the permutation that sample() drew.
ShuffleCostMatrix(m, s, shuffled) ==
    [matrix |-> [i \in Range(PyLen(m)) |-> [j \in Range(PyLen(m)) |->
                    m[shuffled[i]][shuffled[j]]]],
     start |-> CHOOSE p \in DOMAIN shuffled :
                   shuffled[p] = s /\ \A q \in DOMAIN shuffled : shuffled[q] = s => p <= q]

RECURSIVE CalcFrom(_, _, _)
CalcFrom(r, m, i) ==
    IF i > Len(r) - 1 THEN 0 ELSE m[r[i]][r[i + 1]] + CalcFrom(r, m, i + 1)

\* The sum that leaves out the route's first pair.
CalcTotalCostOpen(r, m) == CalcFrom(r, m, 2)

\* _calc_total_cost: the weights of the consecutive pairs of the route.
CalcTotalCost(r, m) == CalcFrom(r, m, 1)

\* ------------------------------------------------------------ state
VARIABLES
    alg,            \* which orchestrator runs: "double_tree" or "christofides"
    costMatrix,     \* the argument costMatrix
    start,          \* the argument start
    pc,             \* where the call stands
    graph,          \* tsr.py: graph
    spanningTree,   \* tsr.py: spanningTree
    removedGraph,   \* tsr.py: removedGraph
    matchingGraph,  \* tsr.py: matchingGraph
    eulerianGraph,  \* tsr.py: duplicatedSpanningTree or mergedGraph
    eulerianPath,   \* tsr.py: eulerianPath
    route,          \* tsr.py: route
    err,            \* the exception that ended the call, "" if none
    times,          \* measurement.py: the argument times
    trial,          \* measurement.py: the trials completed
    clock,          \* the next reading of time(), a logical clock
    shuffledIndices,        \* _shuffle_cost_matrix: shuffledIndices of the last trial
    shuffledCostMatrix,     \* run_two_algorithms: shuffledCostMatrix of the last trial
    shuffledStart,          \* run_two_algorithms: shuffledStart of the last trial
    doubleTreeRoutes, doubleTreeCosts, doubleTreeTimes,
    christofidesRoutes, christofidesCosts, christofidesTimes

tsrVars == <<alg, graph, spanningTree, removedGraph, matchingGraph, eulerianGraph,
             eulerianPath, route>>

harnessVars == <<times, trial, clock, shuffledIndices, shuffledCostMatrix, shuffledStart,
                 doubleTreeRoutes, doubleTreeCosts, doubleTreeTimes,
                 christofidesRoutes, christofidesCosts, christofidesTimes>>

vars == <<costMatrix, start, pc, err, tsrVars, harnessVars>>

InitHarnessVars ==
    /\ times = 0
    /\ trial = 0
    /\ clock = 0
    /\ shuffledIndices = << >>
    /\ shuffledCostMatrix = << >>
    /\ shuffledStart = 0
    /\ doubleTreeRoutes = << >>
    /\ doubleTreeCosts = << >>
    /\ doubleTreeTimes = << >>
    /\ christofidesRoutes = << >>
    /\ christofidesCosts = << >>
    /\ christofidesTimes = << >>

InitLocals ==
    /\ graph = EmptyGraph
    /\ spanningTree = EmptyGraph
    /\ removedGraph = EmptyGraph
    /\ matchingGraph = EmptyGraph
    /\ eulerianGraph = EmptyGraph
    /\ eulerianPath = << >>
    /\ route = << >>
    /\ err = ""

Init ==
    /\ alg \in {"double_tree", "christofides"}
    /\ costMatrix \in ValidMatrices \cup {ExampleMatrix} \cup FixtureMatrices(MaxFixtureN)
    /\ start \in Range(PyLen(costMatrix))
    /\ pc = "called"
    /\ InitLocals
    /\ InitHarnessVars

\* step 0 of both orchestrators
StepCreateWeightedGraph ==
    /\ pc = "called"
    /\ graph' = CreateWeightedGraph(costMatrix)
    /\ pc' = "graph"
    /\ UNCHANGED <<harnessVars, alg, costMatrix, start, spanningTree, removedGraph, matchingGraph,
                   eulerianGraph, eulerianPath, route, err>>

\* step 1 of both orchestrators
StepMinimumSpanningTree ==
    /\ pc = "graph"
    /\ spanningTree' = MinimumSpanningTree(graph)
    /\ pc' = "tree"
    /\ UNCHANGED <<harnessVars, alg, costMatrix, start, graph, removedGraph, matchingGraph,
                   eulerianGraph, eulerianPath, route, err>>

\* double_tree_algorithm, step 2
StepDuplicateWeightedGraph ==
    /\ pc = "tree"
    /\ alg = "double_tree"
    /\ eulerianGraph' = DuplicateWeightedGraph(spanningTree)
    /\ pc' = "multigraph"
    /\ UNCHANGED <<harnessVars, alg, costMatrix, start, graph, spanningTree, removedGraph,
                   matchingGraph, eulerianPath, route, err>>

\* christofides_algorithm, step 2
StepRemoveEvenDegreeVertices ==
    /\ pc = "tree"
    /\ alg = "christofides"
    /\ removedGraph' = RemoveEvenDegreeVertices(graph, spanningTree)
    /\ pc' = "removed"
    /\ UNCHANGED <<harnessVars, alg, costMatrix, start, graph, spanningTree, matchingGraph,
                   eulerianGraph, eulerianPath, route, err>>

\* christofides_algorithm, step 3
StepMatchMinimalWeight ==
    /\ pc = "removed"
    /\ matchingGraph' \in MatchMinimalWeight(removedGraph)
    /\ pc' = "matched"
    /\ UNCHANGED <<harnessVars, alg, costMatrix, start, graph, spanningTree, removedGraph,
                   eulerianGraph, eulerianPath, route, err>>

\* christofides_algorithm, step 4
StepMergeTwoGraphs ==
    /\ pc = "matched"
    /\ eulerianGraph' = MergeTwoGraphs(spanningTree, matchingGraph)
    /\ pc' = "multigraph"
    /\ UNCHANGED <<harnessVars, alg, costMatrix, start, graph, spanningTree, removedGraph,
                   matchingGraph, eulerianPath, route, err>>

\* double_tree_algorithm step 3, christofides_algorithm step 5: an exception
\* of nx.eulerian_circuit ends the call.
StepCreateEulerianPath ==
    /\ pc = "multigraph"
    /\ LET p == CreateEulerianPath(eulerianGraph, start)
       IN /\ eulerianPath' = p.path
          /\ err' = p.err
          /\ pc' = IF p.ok THEN "path" ELSE "raised"
    /\ UNCHANGED <<harnessVars, alg, costMatrix, start, graph, spanningTree, removedGraph,
                   matchingGraph, eulerianGraph, route>>

\* double_tree_algorithm steps 4-5, christofides_algorithm steps 6-7
StepCreateHamiltonianPath ==
    /\ pc = "path"
    /\ route' = CreateHamiltonianPath(eulerianPath)
    /\ pc' = "returned"
    /\ UNCHANGED <<harnessVars, alg, costMatrix, start, graph, spanningTree, removedGraph,
                   matchingGraph, eulerianGraph, eulerianPath, err>>

Next ==
    \/ StepCreateWeightedGraph
    \/ StepMinimumSpanningTree
    \/ StepDuplicateWeightedGraph
    \/ StepRemoveEvenDegreeVertices
    \/ StepMatchMinimalWeight
    \/ StepMergeTwoGraphs
    \/ StepCreateEulerianPath
    \/ StepCreateHamiltonianPath

Spec == Init /\ [][Next]_vars

\* The same orchestrators on matrices whose rows may be cut short.
InitRagged ==
    /\ alg \in {"double_tree", "christofides"}
    /\ costMatrix \in RaggedMatrices
    /\ start \in Range(PyLen(costMatrix))
    /\ pc = "called"
    /\ InitLocals
    /\ InitHarnessVars

SpecRagged == InitRagged /\ [][Next]_vars

\* ------------------------------------------------------------ the Eulerian circuit alone
InitEuler ==
    /\ alg = "eulerian"
    /\ costMatrix = << >>
    /\ start = 0
    /\ pc = "build"
    /\ InitLocals
    /\ InitHarnessVars

\* A caller building a multigraph edge by edge: MultiGraph.add_edge(u, v).
EulerAddEdge ==
    /\ pc = "build"
    /\ EdgeCount(eulerianGraph) < MaxEdges
    /\ \E u, v \in Range(EulerN) :
          /\ u < v
          /\ eulerianGraph' = MultiAddEdge(eulerianGraph, u, v, 1)
    /\ UNCHANGED <<costMatrix, start, pc, err, harnessVars, alg, graph, spanningTree,
                   removedGraph, matchingGraph, eulerianPath, route>>

\* _create_eulerian_path(eulerianGraph, s) on the multigraph built so far.
EulerCreatePath ==
    /\ pc = "build"
    /\ \E s \in Range(EulerN) :
          LET p == CreateEulerianPath(eulerianGraph, s)
          IN /\ start' = s
             /\ eulerianPath' = p.path
             /\ err' = p.err
             /\ pc' = IF p.ok THEN "path" ELSE "raised"
    /\ UNCHANGED <<costMatrix, harnessVars, alg, graph, spanningTree, removedGraph,
                   matchingGraph, eulerianGraph, route>>

NextEuler == EulerAddEdge \/ EulerCreatePath

SpecEuler == InitEuler /\ [][NextEuler]_vars

\* ------------------------------------------------------------ run_two_algorithms
\* The fixture's leading submatrices, given to run_two_algorithms with every
\* start and every number of trials.
InitHarness ==
    /\ costMatrix \in {FixtureSub(Range(n)) : n \in 1 .. HarnessN}
    /\ start \in Range(PyLen(costMatrix))
    /\ times \in 0 .. MaxTimes
    /\ pc = "loop"
    /\ alg = "both"
    /\ InitLocals
    /\ trial = 0
    /\ clock = 0
    /\ shuffledIndices = << >>
    /\ shuffledCostMatrix = << >>
    /\ shuffledStart = 0
    /\ doubleTreeRoutes = << >>
    /\ doubleTreeCosts = << >>
    /\ doubleTreeTimes = << >>
    /\ christofidesRoutes = << >>
    /\ christofidesCosts = << >>
    /\ christofidesTimes = << >>

\* One trial on any principal submatrix of the fixture.
InitRelabel ==
    /\ costMatrix \in FixtureMatrices(RelabelN)
    /\ start \in Range(PyLen(costMatrix))
    /\ times = 1
    /\ pc = "loop"
    /\ alg = "both"
    /\ InitLocals
    /\ trial = 0
    /\ clock = 0
    /\ shuffledIndices = << >>
    /\ shuffledCostMatrix = << >>
    /\ shuffledStart = 0
    /\ doubleTreeRoutes = << >>
    /\ doubleTreeCosts = << >>
    /\ doubleTreeTimes = << >>
    /\ christofidesRoutes = << >>
    /\ christofidesCosts = << >>
    /\ christofidesTimes = << >>

\* (finish - ready) * 1000 for the two readings ready and finish of time().
\* The clock is logical: every reading is one tick after the one before.
ElapsedMs(ready, finish) == (finish - ready) * 1000

\* One pass of the loop body of run_two_algorithms.  An exception of either
\* orchestrator ends the call; what was appended before it stays appended.
HarnessTrial ==
    /\ pc = "loop"
    /\ trial < times
    /\ \E perm \in Permutations0(PyLen(costMatrix)) :
          LET sh == ShuffleCostMatrix(costMatrix, start, perm)
              dt == DoubleTreeAlgorithm(sh.matrix, sh.start)
          IN \E ch \in ChristofidesAlgorithm(sh.matrix, sh.start) :
                /\ shuffledIndices' = perm
                /\ shuffledCostMatrix' = sh.matrix
                /\ shuffledStart' = sh.start
                /\ IF dt.ok
                   THEN /\ doubleTreeRoutes' = Append(doubleTreeRoutes, dt.route)
                        /\ doubleTreeCosts' =
                               Append(doubleTreeCosts, CalcTotalCost(dt.route, sh.matrix))
                        /\ doubleTreeTimes' =
                               Append(doubleTreeTimes, ElapsedMs(clock, clock + 1))
                   ELSE UNCHANGED <<doubleTreeRoutes, doubleTreeCosts, doubleTreeTimes>>
                /\ IF dt.ok /\ ch.ok
                   THEN /\ christofidesRoutes' = Append(christofidesRoutes, ch.route)
                        /\ christofidesCosts' =
                               Append(christofidesCosts, CalcTotalCost(ch.route, sh.matrix))
                        /\ christofidesTimes' =
                               Append(christofidesTimes, ElapsedMs(clock + 2, clock + 3))
                        /\ trial' = trial + 1
                        /\ clock' = clock + 4
                        /\ UNCHANGED <<pc, err>>
                   ELSE /\ UNCHANGED <<christofidesRoutes, christofidesCosts,
                                       christofidesTimes, trial>>
                        /\ clock' = IF dt.ok THEN clock + 3 ELSE clock + 1
                        /\ pc' = "raised"
                        /\ err' = IF dt.ok THEN ch.err ELSE dt.err
    /\ UNCHANGED <<costMatrix, start, times, tsrVars>>

\* The loop is over: the six collections are returned.
HarnessReturn ==
    /\ pc = "loop"
    /\ trial = times
    /\ pc' = "returned"
    /\ UNCHANGED <<costMatrix, start, err, tsrVars, times, trial, clock, shuffledIndices,
                   shuffledCostMatrix, shuffledStart, doubleTreeRoutes, doubleTreeCosts,
                   doubleTreeTimes, christofidesRoutes, christofidesCosts,
                   christofidesTimes>>

NextHarness == HarnessTrial \/ HarnessReturn

SpecHarness == InitHarness /\ [][NextHarness]_vars

SpecRelabel == InitRelabel /\ [][NextHarness]_vars

\* ------------------------------------------------------------ properties
N == PyLen(costMatrix)

\* r has n + 1 elements, begins and ends at s, holds s nowhere else and every
\* other vertex of 0..n-1 exactly once.
IsTour(r, n, s) ==
    /\ Len(r) = n + 1
    /\ r[1] = s
    /\ r[n + 1] = s
    /\ \A v \in Range(n) :
          Cardinality({i \in 1 .. Len(r) : r[i] = v}) = IF v = s THEN 2 ELSE 1

\* The triangle inequality, the diagonal being undefined.
Metric(m) ==
    \A i, j, k \in Range(PyLen(m)) :
        (i # j /\ j # k /\ i # k) => m[i][k] <= m[i][j] + m[j][k]

Least(S) == CHOOSE x \in S : \A y \in S : x <= y

RECURSIVE BestFrom(_, _, _)
\* The cheapest way to go from v through every vertex of rest and back to 0.
BestFrom(m, v, rest) ==
    IF rest = {} THEN (IF v = 0 THEN 0 ELSE m[v][0])
    ELSE Least({m[v][u] + BestFrom(m, u, rest \ {u}) : u \in rest})

\* The cost of an optimal Hamiltonian tour of m.
OptimalTourCost(m) == BestFrom(m, 0, Range(PyLen(m)) \ {0})

\* C1: every call of either orchestrator on a valid matrix returns, and the
\* route it returns is a tour of all N vertices from the start: N + 1
\* elements, the start first and last and nowhere else, every other vertex
\* exactly once.
RouteIsTourFromStart ==
    /\ pc # "raised"
    /\ pc = "returned" => IsTour(route, N, start)

\* C1, for two vertices or more: the call returns and the route is a tour.
RouteIsTourFromTwoVertices ==
    N >= 2 => RouteIsTourFromStart

\* C1: the call on the 1 x 1 matrix ends in the extractor's exception.
SingleVertexRaises ==
    N = 1 => /\ pc \notin {"path", "returned"}
             /\ pc = "raised" => err = "null graph"

\* C2: on a matrix that satisfies the triangle inequality, the route
\* double_tree_algorithm returns costs at most twice an optimal tour.
DoubleTreeWithinTwiceOptimal ==
    (alg = "double_tree" /\ pc = "returned" /\ Metric(costMatrix))
        => CalcTotalCost(route, costMatrix) <= 2 * OptimalTourCost(costMatrix)

\* A double-tree route on a metric matrix that is a tour and not an optimal one.
DoubleTreeSuboptimalReturned ==
    /\ alg = "double_tree" /\ pc = "returned" /\ Metric(costMatrix)
    /\ IsTour(route, N, start)
    /\ CalcTotalCost(route, costMatrix) > OptimalTourCost(costMatrix)

\* C3: on a matrix that satisfies the triangle inequality, twice the cost of
\* the route christofides_algorithm returns is at most three times the cost
\* of an optimal tour.
ChristofidesWithinThreeHalvesOptimal ==
    (alg = "christofides" /\ pc = "returned" /\ Metric(costMatrix))
        => 2 * CalcTotalCost(route, costMatrix) <= 3 * OptimalTourCost(costMatrix)

\* A Christofides route on a metric matrix that is a tour and not an optimal one.
ChristofidesSuboptimalReturned ==
    /\ alg = "christofides" /\ pc = "returned" /\ Metric(costMatrix)
    /\ IsTour(route, N, start)
    /\ CalcTotalCost(route, costMatrix) > OptimalTourCost(costMatrix)

ExampleCase == alg = "double_tree" /\ costMatrix = ExampleMatrix /\ start = 0

\* The edges of a simple graph as unordered pairs with their weight.
EdgeSet(g) ==
    {<<e[1], e[2], Weight(g, e[1], e[2])>> : e \in EdgePairs(g)}

TreeWeight(g) ==
    LET es == GraphEdges(g, 1)
        F[i \in 0 .. Len(es)] == IF i = 0 THEN 0 ELSE F[i - 1] + es[i].wt
    IN F[Len(es)]

ExampleTreeIsPath ==
    /\ EdgeSet(spanningTree) = {<<0, 1, 1>>, <<1, 2, 1>>}
    /\ TreeWeight(spanningTree) = 2

\* C4, as the program behaves: on the example the minimum spanning tree is
\* {(0,1),(1,2)} with weight 2 and double_tree_algorithm returns 0, 1, 2, 0,
\* a tour of {0,1,2} whose cost is 5.
ExampleRouteCostsFive ==
    ExampleCase =>
        /\ pc \in {"tree", "multigraph", "path", "returned"} => ExampleTreeIsPath
        /\ pc # "raised"
        /\ pc = "returned" =>
              /\ route = <<0, 1, 2, 0>>
              /\ CalcTotalCost(route, costMatrix) = 5

\* The example's call has returned.
ExampleReturned == ExampleCase /\ pc = "returned"

\* C4, as stated: on the example the minimum spanning tree is {(0,1),(1,2)}
\* with weight 2 and the route visits {0,1,2} at a cost of at most 4.
ExampleRouteCostsAtMostFour ==
    ExampleCase =>
        /\ pc \in {"tree", "multigraph", "path", "returned"} => ExampleTreeIsPath
        /\ pc = "returned" =>
              /\ IsTour(route, 3, 0)
              /\ CalcTotalCost(route, costMatrix) <= 4
\* The vertices of odd degree in the spanning tree.
TreeOdd == {v \in DOMAIN spanningTree.adj : Degree(spanningTree, v) % 2 = 1}

\* The number of u-v edges of g, 0 if u or v is no node of g.
MultIn(g, u, v) == IF HasNode(g, u) /\ HasNode(g, v) THEN Mult(g, u, v) ELSE 0

DegreeIn(g, v) == IF HasNode(g, v) THEN Degree(g, v) ELSE 0

\* C9: the multigraph handed to _create_eulerian_path spans all N vertices,
\* is connected and has only even degrees; in the double-tree pipeline every
\* tree edge occurs exactly twice and every degree is twice the tree degree;
\* in the Christofides pipeline the number of odd tree vertices is even, every
\* odd tree vertex gains exactly one matching edge, every even one none, and
\* a matching edge that joins the ends of a tree edge is kept parallel to it.
EulerianInputWellFormed ==
    pc = "multigraph" =>
        /\ DOMAIN eulerianGraph.adj = Range(N)
        /\ IsConnected(eulerianGraph)
        /\ \A v \in Range(N) : Degree(eulerianGraph, v) % 2 = 0
        /\ alg = "double_tree" =>
              /\ \A v \in Range(N) :
                    Degree(eulerianGraph, v) = 2 * Degree(spanningTree, v)
              /\ \A u, v \in Range(N) :
                    u # v => Mult(eulerianGraph, u, v) = 2 * Mult(spanningTree, u, v)
        /\ alg = "christofides" =>
              /\ Cardinality(TreeOdd) % 2 = 0
              /\ \A v \in Range(N) :
                    /\ DegreeIn(matchingGraph, v) = IF v \in TreeOdd THEN 1 ELSE 0
                    /\ Degree(eulerianGraph, v)
                          = Degree(spanningTree, v) + DegreeIn(matchingGraph, v)
              /\ \A u, v \in Range(N) :
                    u # v => Mult(eulerianGraph, u, v)
                               = Mult(spanningTree, u, v) + MultIn(matchingGraph, u, v)

\* C9, for two vertices or more: the multigraph is as the claim describes.
EulerianInputWellFormedFromTwoVertices ==
    N >= 2 => EulerianInputWellFormed

\* C9, for one vertex: the multigraph handed over has no vertex at all.
SingleVertexMultigraphIsNull ==
    (N = 1 /\ pc = "multigraph") => eulerianGraph = EmptyGraph

\* A matching edge has been merged next to the tree edge with the same ends.
MatchingEdgeParallelToTreeEdge ==
    /\ alg = "christofides" /\ pc = "multigraph"
    /\ \E u, v \in Range(N) : u # v /\ Mult(eulerianGraph, u, v) = 2

\* The graph built from the cost matrix (the call being past step 0) does not
\* join all N vertices, N >= 2: it lacks a vertex or has several components.
GraphDisconnected ==
    /\ pc # "called"
    /\ N >= 2
    /\ \/ DOMAIN graph.adj # Range(N)
       \/ ~IsConnected(graph)

PastSpanningTree == pc \in {"tree", "multigraph", "removed", "matched", "path", "returned", "raised"}

\* t holds, for every node of g, a tree of that node's component and no edge
\* more.
IsSpanningForest(t, g) ==
    /\ t.nodes = g.nodes
    /\ \A v \in DOMAIN g.adj : Reach(t, {v}, {v}) = Reach(g, {v}, {v})
    /\ EdgeCount(t) = Cardinality(DOMAIN g.adj)
                        - Cardinality({Reach(g, {v}, {v}) : v \in DOMAIN g.adj})

RouteReturnedOnPartialGraph ==
    GraphDisconnected /\ pc = "returned"

Crossings(p, u, v) ==
    Cardinality({i \in 1 .. Len(p) - 1 :
                    \/ (p[i] = u /\ p[i + 1] = v)
                    \/ (p[i] = v /\ p[i + 1] = u)})

\* The argument of _create_eulerian_path is a connected multigraph with at
\* least one edge and only even degrees, and the start is a vertex of it.
EulerianArgument ==
    /\ EdgeCount(eulerianGraph) >= 1
    /\ IsConnected(eulerianGraph)
    /\ \A v \in DOMAIN eulerianGraph.adj : Degree(eulerianGraph, v) % 2 = 0
    /\ HasNode(eulerianGraph, start)

\* C8: on a connected multigraph with E >= 1 edges and only even degrees,
\* _create_eulerian_path returns E + 1 vertices, the first and the last being
\* the start, whose consecutive pairs cross every edge exactly once, parallel
\* edges counted separately.
EulerianPathCoversEveryEdgeOnce ==
    (pc \in {"path", "raised"} /\ EulerianArgument) =>
        /\ pc = "path"
        /\ Len(eulerianPath) = EdgeCount(eulerianGraph) + 1
        /\ eulerianPath[1] = start
        /\ eulerianPath[Len(eulerianPath)] = start
        /\ \A u, v \in DOMAIN eulerianGraph.adj :
              u < v => Crossings(eulerianPath, u, v) = Mult(eulerianGraph, u, v)

\* A path was returned for a multigraph with parallel edges and a vertex met
\* more than once on the way.
EulerianPathOverParallelEdges ==
    /\ alg = "eulerian" /\ pc = "path" /\ EulerianArgument
    /\ EdgeCount(eulerianGraph) = MaxEdges
    /\ \E u, v \in DOMAIN eulerianGraph.adj : u < v /\ Mult(eulerianGraph, u, v) = 2
    /\ Cardinality(DOMAIN eulerianGraph.adj) = 3

\* The weights of the consecutive pairs of r in m, added up pair by pair.
PairSum(r, m) ==
    LET F[i \in 0 .. Len(r) - 1] == IF i = 0 THEN 0 ELSE F[i - 1] + m[r[i]][r[i + 1]]
    IN F[Len(r) - 1]

SixCollections ==
    <<doubleTreeRoutes, doubleTreeCosts, doubleTreeTimes,
      christofidesRoutes, christofidesCosts, christofidesTimes>>

\* After trial completed trials every collection has trial entries, and on
\* return that is times entries.
CollectionsHaveOneEntryPerTrial ==
    /\ \A i \in 1 .. 6 : Len(SixCollections[i]) = trial
    /\ trial <= times
    /\ pc = "returned" => trial = times

\* A trial appends one entry to every collection and leaves the earlier
\* entries alone; the cost appended for either algorithm is the sum over the
\* consecutive pairs of the route appended with it, on that trial's relabeled
\* matrix.
TrialAppendsAlignedEntries ==
    trial' = trial + 1 =>
        /\ \A i \in 1 .. 6 :
              /\ Len(SixCollections'[i]) = trial + 1
              /\ SubSeq(SixCollections'[i], 1, trial) = SixCollections[i]
        /\ doubleTreeCosts'[trial + 1]
              = PairSum(doubleTreeRoutes'[trial + 1], shuffledCostMatrix')
        /\ christofidesCosts'[trial + 1]
              = PairSum(christofidesRoutes'[trial + 1], shuffledCostMatrix')

\* C6: run_two_algorithms keeps its six collections index-aligned: k entries
\* each after k completed trials, times entries each on return, and at every
\* index the recorded cost is the sum of the relabeled weights over the
\* consecutive pairs of the route recorded at that index, nothing added for a
\* wrap-around.
CollectionsAlignedByTrial ==
    /\ []CollectionsHaveOneEntryPerTrial
    /\ [][TrialAppendsAlignedEntries]_vars

\* The call returned after two trials or more whose routes differ.
ReturnedAfterSeveralTrials ==
    /\ alg = "both" /\ pc = "returned" /\ times >= 2 /\ trial = times
    /\ doubleTreeRoutes[1] # doubleTreeRoutes[2]
    /\ doubleTreeCosts[1] > 0

\* A trial has drawn its permutation.
TrialRan == shuffledIndices # << >>

\* C7: in a trial with permutation perm the relabeled matrix is
\* relabeled[i][j] = original[perm[i]][perm[j]], symmetric with the diagonal
\* undefined; the relabeled start p has perm[p] = start; both orchestrators
\* run on that matrix and start, so perm takes the first and the last element
\* of either recorded route to the original start.
RelabeledTrialIsFaithful ==
    TrialRan =>
        /\ shuffledIndices \in Permutations0(N)
        /\ DOMAIN shuffledCostMatrix = Range(N)
        /\ \A i, j \in Range(N) :
              /\ shuffledCostMatrix[i][j]
                    = costMatrix[shuffledIndices[i]][shuffledIndices[j]]
              /\ shuffledCostMatrix[i][j] = shuffledCostMatrix[j][i]
              /\ (shuffledCostMatrix[i][j] = NoneVal) = (i = j)
        /\ shuffledIndices[shuffledStart] = start
        /\ (pc # "raised" /\ trial >= 1) =>
              \A r \in {doubleTreeRoutes[trial], christofidesRoutes[trial]} :
                  /\ r[1] = shuffledStart
                  /\ r[Len(r)] = shuffledStart
                  /\ shuffledIndices[r[1]] = start
                  /\ shuffledIndices[r[Len(r)]] = start

\* A trial ran on a relabeling that moved the start.
TrialMovedStart ==
    /\ TrialRan /\ pc # "raised" /\ trial >= 1
    /\ shuffledStart # start
    /\ N >= 3

\* The route r of the relabeled run, in the original vertex numbers.
MapBack(r) == [i \in 1 .. Len(r) |-> shuffledIndices[r[i]]]

\* The single trial of the relabeling run has been recorded.
RelabeledRunRecorded == alg = "both" /\ trial = 1 /\ pc # "raised"

\* The costs christofides_algorithm can reach when run on costMatrix itself.
DirectChristofidesCosts ==
    {CalcTotalCost(c.route, costMatrix) : c \in ChristofidesAlgorithm(costMatrix, start)}

DirectDoubleTreeCost ==
    CalcTotalCost(DoubleTreeAlgorithm(costMatrix, start).route, costMatrix)

====
